---- MODULE Spec2Model ----
(***************************************************************************)
(* Model of backend/main.py: the /process-ocr request handler and the      *)
(* helpers it calls (preprocess_image, detect_text_regions,                *)
(* draw_bounding_boxes, extract_text).                                     *)
(*                                                                         *)
(* The OCR engine and the image filters are external: their outputs are    *)
(* inputs of the model, drawn from small sets.  Everything main.py itself  *)
(* computes (the resize arithmetic, the binarization choice, the word      *)
(* filter, the longer-text choice, the colour tiers, the mean confidence,  *)
(* the exception routing) is computed here the way the code computes it.   *)
(***************************************************************************)
EXTENDS Integers, Sequences, FiniteSets, TLC

(***************************************************************************)
(* Bounds of the model.                                                    *)
(***************************************************************************)
MaxWords == 3      \* longest word list the engine reports
MaxLen == 1        \* longest string image_to_string returns
NPix == 2          \* pixels listed per binarized image

(***************************************************************************)
(* Constants of the program.                                               *)
(***************************************************************************)
MinWidth == 2000        \* main.py:34-35
ConfThreshold == 30     \* main.py:76
GreenAbove == 70        \* main.py:101
OrangeAbove == 50       \* main.py:103

(***************************************************************************)
(* Python float arithmetic (IEEE 754 binary64, round to nearest, ties to   *)
(* even), as used by lines 35-37.  Natural numbers too large for one       *)
(* machine integer are sequences of limbs of LimbBits bits, most           *)
(* significant first.  A float is [sig |-> significand, lsb |-> exponent   *)
(* of its last bit]: its value is sig * 2^lsb.                             *)
(***************************************************************************)
MantissaBits == 53      \* bits of a float's significand
LimbBits == 13          \* bits of one limb

RECURSIVE Pow2(_)
Pow2(k) == IF k = 0 THEN 1 ELSE 2 * Pow2(k - 1)

Base == Pow2(LimbBits)

RECURSIVE BitLenInt(_)
BitLenInt(n) == IF n = 0 THEN 0 ELSE 1 + BitLenInt(n \div 2)

RECURSIVE LimbsOf(_)
LimbsOf(n) == IF n = 0 THEN <<>> ELSE Append(LimbsOf(n \div Base), n % Base)

RECURSIVE NatOfLimbs(_)
NatOfLimbs(x) ==
    IF x = <<>> THEN 0
    ELSE NatOfLimbs(SubSeq(x, 1, Len(x) - 1)) * Base + x[Len(x)]

RECURSIVE Norm(_)
\* without leading zero limbs
Norm(x) == IF x # <<>> /\ Head(x) = 0 THEN Norm(Tail(x)) ELSE x

BitLen(x) ==
    LET y == Norm(x)
    IN IF y = <<>> THEN 0 ELSE (Len(y) - 1) * LimbBits + BitLenInt(Head(y))

IsOdd(x) == x # <<>> /\ x[Len(x)] % 2 = 1

RECURSIVE MulSmall(_, _, _)
\* x * n + carry
MulSmall(x, n, carry) ==
    IF x = <<>> THEN LimbsOf(carry)
    ELSE LET v == x[Len(x)] * n + carry
         IN Append(MulSmall(SubSeq(x, 1, Len(x) - 1), n, v \div Base), v % Base)

RECURSIVE DivSmall(_, _, _)
\* <<quotient, remainder>> of (rem * Base^Len(x) + x) divided by d
DivSmall(x, d, rem) ==
    IF x = <<>> THEN <<<<>>, rem>>
    ELSE LET cur  == rem * Base + Head(x)
             rest == DivSmall(Tail(x), d, cur % d)
         IN <<(<<cur \div d>>) \o rest[1], rest[2]>>

\* x * 2^k
ShiftLeft(x, k) ==
    MulSmall(x \o [i \in 1..(k \div LimbBits) |-> 0], Pow2(k % LimbBits), 0)

\* x \div 2^k, and whether a nonzero bit was dropped
ShiftRight(x, k) ==
    LET whole == k \div LimbBits
        keep  == IF whole >= Len(x) THEN 0 ELSE Len(x) - whole
        low   == SubSeq(x, keep + 1, Len(x))
        d     == DivSmall(SubSeq(x, 1, keep), Pow2(k % LimbBits), 0)
    IN [q |-> Norm(d[1]),
        sticky |-> d[2] # 0 \/ \E i \in 1..Len(low) : low[i] # 0]

\* The float nearest to sig * 2^lsb.
RoundToFloat(sig, lsb) ==
    IF BitLen(sig) <= MantissaBits THEN [sig |-> Norm(sig), lsb |-> lsb]
    ELSE LET drop == BitLen(sig) - MantissaBits
             s    == ShiftRight(sig, drop - 1)
             q    == ShiftRight(s.q, 1).q
             up   == IsOdd(s.q) /\ (s.sticky \/ IsOdd(q))
             r    == IF up THEN MulSmall(q, 1, 1) ELSE q
         IN IF BitLen(r) > MantissaBits
            THEN [sig |-> ShiftRight(r, 1).q, lsb |-> lsb + drop + 1]
            ELSE [sig |-> r, lsb |-> lsb + drop]

\* a / b for ints a >= b >= 1: the correctly rounded quotient.
TrueDiv(a, b) ==
    LET k   == MantissaBits - BitLenInt(a \div b)
        d   == DivSmall(ShiftLeft(LimbsOf(a), k), b, 0)
        q   == Norm(d[1])
        up  == 2 * d[2] > b \/ (2 * d[2] = b /\ IsOdd(q))
        r   == IF up THEN MulSmall(q, 1, 1) ELSE q
    IN RoundToFloat(r, -k)

\* n * f for an int n >= 0 and a float f: the correctly rounded product.
MulIntFloat(n, f) == RoundToFloat(MulSmall(f.sig, n, 0), f.lsb)

\* int(f) for a float f >= 0: truncation.
IntOfFloat(f) ==
    IF f.lsb >= 0 THEN NatOfLimbs(ShiftLeft(f.sig, f.lsb))
    ELSE NatOfLimbs(ShiftRight(f.sig, -f.lsb).q)

(***************************************************************************)
(* Values.                                                                 *)
(***************************************************************************)
NoImage == [width |-> 0, height |-> 0, channels |-> 0, pixels |-> <<>>]

\* Sizes (width, height) of the images cv2.imdecode decodes the uploads to.
ImageSizes == {<<3, 1>>, <<19, 10>>, <<640, 480>>, <<2000, 7>>, <<2400, 5>>}

\* What cv2.imdecode returns: None, modelled by NoImage, or a colour image.
Decoded ==
    {NoImage} \cup {[width |-> s[1], height |-> s[2], channels |-> 3,
                     pixels |-> <<>>] : s \in ImageSizes}

\* The pixels of a binarized image: 0 is black, 255 is white.
Binarized == [1..NPix -> {0, 255}]

\* Characters of the strings the engine returns; " " is whitespace.
Chars == {" ", "a", "b"}
Whitespace == {" "}

Strings == UNION {[1..n -> Chars] : n \in 0..MaxLen}

\* A confidence as the engine reports it: whole + frac/10.
Conf(whole, frac) == [whole |-> whole, frac |-> frac]

Word(text, left, top, width, height, conf) ==
    [text |-> text, left |-> left, top |-> top, width |-> width,
     height |-> height, conf |-> conf]

\* The rows image_to_data can report.
EngineWords ==
    { Word(<<>>, 0, 0, 20, 20, Conf(-1, 0)),
      Word(<<"a">>, 1, 1, 4, 2, Conf(30, 0)),
      Word(<<"a">>, 1, 1, 4, 2, Conf(30, 5)),
      Word(<<" ", "a", " ">>, 2, 1, 4, 2, Conf(31, 0)),
      Word(<<"a">>, 3, 1, 4, 2, Conf(50, 0)),
      Word(<<"b">>, 4, 1, 4, 2, Conf(70, 9)),
      Word(<<"b", "a">>, 5, 6, 4, 2, Conf(71, 0)),
      Word(<<" ">>, 6, 6, 4, 2, Conf(85, 0)) }

WordLists == UNION {[1..n -> EngineWords] : n \in 0..MaxWords}

\* Messages of the exceptions the libraries raise.
Messages == {"cv2.error", "MemoryError"}

NoException == [cls |-> "none", status_code |-> 0, detail |-> ""]
LibraryError(m) == [cls |-> "Exception", status_code |-> 0, detail |-> m]
EngineError(m) == [cls |-> "TesseractError", status_code |-> 0, detail |-> m]
HTTPException(code, d) == [cls |-> "HTTPException", status_code |-> code, detail |-> d]

NoData ==
    [text |-> <<>>, average_confidence |-> 0, rotation_angle |-> 0,
     text_boxes |-> <<>>, processed_image |-> <<>>, total_boxes |-> 0]

NoResponse == [status |-> 0, detail |-> <<>>, success |-> FALSE, data |-> NoData]

(***************************************************************************)
(* preprocess_image                                                        *)
(***************************************************************************)
\* lines 30-38: grayscale, then upscale when narrower than 2000 px.
Resize(image) ==
    IF image.width < MinWidth
    THEN LET scale == TrueDiv(MinWidth, image.width)
         IN [width |-> IntOfFloat(MulIntFloat(image.width, scale)),
             height |-> IntOfFloat(MulIntFloat(image.height, scale)),
             channels |-> 1, pixels |-> <<>>]
    ELSE [width |-> image.width, height |-> image.height,
          channels |-> 1, pixels |-> <<>>]

\* np.sum(img == 0)
RECURSIVE CountBlack(_)
CountBlack(px) ==
    IF px = <<>> THEN 0
    ELSE (IF Head(px) = 0 THEN 1 ELSE 0) + CountBlack(Tail(px))

\* ChooseBinarized with the comparison of line 57 made inclusive.
ChooseBinarizedPreferOtsu(adaptive, otsu) ==
    IF CountBlack(otsu.pixels) >= CountBlack(adaptive.pixels)
    THEN otsu
    ELSE adaptive

\* lines 57-59
ChooseBinarized(adaptive, otsu) ==
    IF CountBlack(otsu.pixels) > CountBlack(adaptive.pixels)
    THEN otsu
    ELSE adaptive

(***************************************************************************)
(* detect_text_regions                                                     *)
(***************************************************************************)
\* int(x) of a number: truncation toward zero.
IntOfConf(c) == c.whole

\* str.strip()
RECURSIVE LStrip(_)
LStrip(s) ==
    IF s # <<>> /\ Head(s) \in Whitespace THEN LStrip(Tail(s)) ELSE s

RECURSIVE RStrip(_)
RStrip(s) ==
    IF s # <<>> /\ s[Len(s)] \in Whitespace
    THEN RStrip(SubSeq(s, 1, Len(s) - 1))
    ELSE s

Strip(s) == RStrip(LStrip(s))

\* PassesThreshold with the comparison of line 76 made inclusive.
PassesThresholdInclusive(conf) == conf >= ConfThreshold

\* line 76
PassesThreshold(conf) == conf > ConfThreshold

\* lines 79-86
MakeBox(w, text, conf) ==
    [text |-> text, x |-> w.left, y |-> w.top, width |-> w.width,
     height |-> w.height, confidence |-> conf]

\* lines 71-88: the loop over the engine's rows.
RECURSIVE BuildBoxes(_)
BuildBoxes(data) ==
    IF data = <<>> THEN <<>>
    ELSE LET w    == data[Len(data)]
             rest == BuildBoxes(SubSeq(data, 1, Len(data) - 1))
             conf == IntOfConf(w.conf)
             text == Strip(w.text)
         IN IF PassesThreshold(conf) /\ text # <<>>
            THEN Append(rest, MakeBox(w, text, conf))
            ELSE rest

(***************************************************************************)
(* draw_bounding_boxes                                                     *)
(***************************************************************************)
\* BoxColor with the comparison of line 103 made inclusive.
BoxColorInclusive(confidence) ==
    IF confidence > GreenAbove THEN "green"
    ELSE IF confidence >= OrangeAbove THEN "orange"
    ELSE "red"

\* lines 101-106
BoxColor(confidence) ==
    IF confidence > GreenAbove THEN "green"
    ELSE IF confidence > OrangeAbove THEN "orange"
    ELSE "red"

\* lines 97-113: one rectangle and one label per box, in order.
DrawBoxes(boxes) ==
    [i \in 1..Len(boxes) |->
        [x |-> boxes[i].x, y |-> boxes[i].y,
         w |-> boxes[i].width, h |-> boxes[i].height,
         color |-> BoxColor(boxes[i].confidence),
         label |-> boxes[i].confidence]]

(***************************************************************************)
(* extract_text                                                            *)
(***************************************************************************)
\* LongerText with the comparison of line 133 made inclusive.
LongerTextPreferSecond(text1, text2) ==
    IF Len(Strip(text2)) >= Len(Strip(text1))
    THEN Strip(text2)
    ELSE Strip(text1)

\* lines 133-135
LongerText(text1, text2) ==
    IF Len(Strip(text2)) > Len(Strip(text1))
    THEN Strip(text2)
    ELSE Strip(text1)

(***************************************************************************)
(* process_ocr                                                             *)
(***************************************************************************)
RECURSIVE SumConfidence(_)
SumConfidence(boxes) ==
    IF boxes = <<>> THEN 0
    ELSE Head(boxes).confidence + SumConfidence(Tail(boxes))

\* Round2 truncating instead of rounding.
Round2Truncating(num, den) == (100 * num) \div den

\* round(num / den, 2), in hundredths: nearest, ties to even.
Round2(num, den) ==
    LET q == (100 * num) \div den
        r == (100 * num) % den
    IN IF 2 * r > den \/ (2 * r = den /\ q % 2 = 1) THEN q + 1 ELSE q

\* lines 175 and 181, in hundredths.
AverageConfidence(boxes) ==
    IF boxes # <<>> THEN Round2(SumConfidence(boxes), Len(boxes)) ELSE 0

NoText == <<"Tidak dapat mendeteksi teks">>

\* line 180
TextOrDefault(extracted) == IF extracted # <<>> THEN extracted ELSE NoText

\* str(e)
StrOfException(e) ==
    IF e.cls = "HTTPException"
    THEN <<ToString(e.status_code), ": ", e.detail>>
    ELSE <<e.detail>>

\* ErrorResponse without the exception's message.
ErrorResponseNoMessage(e) ==
    [status |-> 500, detail |-> <<"Processing error: ">>,
     success |-> FALSE, data |-> NoData]

\* lines 189-192: whatever is raised inside the try block leaves as a 500.
ErrorResponse(e) ==
    [status |-> 500, detail |-> <<"Processing error: ">> \o StrOfException(e),
     success |-> FALSE, data |-> NoData]

\* lines 177-187
SuccessResponse(extracted, boxes, encoded) ==
    [status |-> 200, detail |-> <<>>, success |-> TRUE,
     data |-> [text |-> TextOrDefault(extracted),
               average_confidence |-> AverageConfidence(boxes),
               rotation_angle |-> 0,
               text_boxes |-> boxes,
               processed_image |-> encoded,
               total_boxes |-> Len(boxes)]]


(***************************************************************************)
(* State of one request.  process_ocr runs its calls in sequence; pc names *)
(* the statement reached.  The locals of a call that has returned stay     *)
(* readable in the state it returned in and are dropped by the next step.  *)
(***************************************************************************)
VARIABLES
    pc,               \* the statement process_ocr has reached
    image,            \* process_ocr: what cv2.imdecode returned
    site,             \* the caller of the running preprocess_image
    gray,             \* preprocess_image: the grayscale, resized image
    adaptive,         \* preprocess_image: adaptive Gaussian binarization
    otsu,             \* preprocess_image: blur + Otsu binarization
    processed,        \* what preprocess_image returned to its caller
    data,             \* detect_text_regions: the rows image_to_data returned
    text_boxes,       \* process_ocr: what detect_text_regions returned
    text1,            \* extract_text: output of the --psm 3 pass
    text2,            \* extract_text: output of the --psm 6 pass
    extracted_text,   \* process_ocr: what extract_text returned
    image_with_boxes, \* process_ocr: what draw_bounding_boxes drew
    response,         \* the response delivered to the caller
    raised,           \* the exception that reached process_ocr's except clause
    engineFailed,     \* the engine invocations of this request that raised
    engineCalls,      \* number of pytesseract invocations of this request
    preprocessCalls,  \* number of preprocess_image calls of this request
    stages            \* the stages of this request, in the order they started

vars == <<pc, image, site, gray, adaptive, otsu, processed, data, text_boxes,
          text1, text2, extracted_text, image_with_boxes, response, raised,
          engineFailed, engineCalls, preprocessCalls, stages>>

preVars == <<gray, adaptive, otsu, processed>>
detectVars == <<data, text_boxes>>
extractVars == <<text1, text2, extracted_text>>
countVars == <<engineFailed, engineCalls, preprocessCalls, stages>>

Init ==
    /\ pc = "start"
    /\ image = NoImage
    /\ site = "none"
    /\ gray = NoImage
    /\ adaptive = NoImage
    /\ otsu = NoImage
    /\ processed = NoImage
    /\ data = <<>>
    /\ text_boxes = <<>>
    /\ text1 = <<>>
    /\ text2 = <<>>
    /\ extracted_text = <<>>
    /\ image_with_boxes = <<>>
    /\ response = NoResponse
    /\ raised = NoException
    /\ engineFailed = {}
    /\ engineCalls = 0
    /\ preprocessCalls = 0
    /\ stages = <<>>

\* An exception raised inside process_ocr's try block and not caught below it:
\* the except clause of lines 189-192 turns it into the response.
Raise(e) ==
    /\ raised' = e
    /\ response' = ErrorResponse(e)
    /\ pc' = "done"

\* lines 144-155: read the upload and decode it.
Decode ==
    /\ pc = "start"
    /\ \E img \in Decoded :
        /\ image' = img
        /\ stages' = Append(stages, "decode")
        /\ IF img = NoImage
           THEN /\ Raise(HTTPException(400, "Invalid image file"))
                /\ site' = site
           ELSE /\ pc' = "pre_resize"
                /\ site' = "detect"
                /\ UNCHANGED <<raised, response>>
    /\ UNCHANGED <<preVars, detectVars, extractVars, image_with_boxes,
                   engineFailed, engineCalls, preprocessCalls>>

\* lines 30-38 of preprocess_image, called at line 63 or at line 119.
PreprocessResize ==
    /\ pc = "pre_resize"
    /\ preprocessCalls' = preprocessCalls + 1
    /\ stages' = Append(stages, IF site = "detect" THEN "detect_regions"
                                                   ELSE "extract_text")
    /\ data' = <<>>
    /\ \/ /\ gray' = Resize(image)
          /\ pc' = "pre_binarize"
          /\ UNCHANGED <<raised, response>>
       \/ /\ \E m \in Messages : Raise(LibraryError(m))
          /\ gray' = gray
    /\ UNCHANGED <<image, site, adaptive, otsu, processed, text_boxes,
                   extractVars, image_with_boxes, engineFailed, engineCalls>>

\* lines 41-54 of preprocess_image: denoise, CLAHE and the two binarizations.
PreprocessBinarize ==
    /\ pc = "pre_binarize"
    /\ \/ /\ \E a \in Binarized, o \in Binarized :
                /\ adaptive' = [gray EXCEPT !.pixels = a]
                /\ otsu' = [gray EXCEPT !.pixels = o]
          /\ pc' = "pre_return"
          /\ UNCHANGED <<raised, response>>
       \/ /\ \E m \in Messages : Raise(LibraryError(m))
          /\ UNCHANGED <<adaptive, otsu>>
    /\ UNCHANGED <<image, site, gray, processed, detectVars, extractVars,
                   image_with_boxes, countVars>>

\* lines 57-59 of preprocess_image: return one of the two binarizations.
PreprocessReturn ==
    /\ pc = "pre_return"
    /\ processed' = ChooseBinarized(adaptive, otsu)
    /\ pc' = IF site = "detect" THEN "detect_engine" ELSE "extract_pass1"
    /\ UNCHANGED <<image, site, gray, adaptive, otsu, detectVars, extractVars,
                   image_with_boxes, response, raised, countVars>>

\* DetectRegions without the try/except of lines 65 and 89-91: the engine's
\* exception leaves detect_text_regions.
DetectRegionsPropagating ==
    /\ pc = "detect_engine"
    /\ engineCalls' = engineCalls + 1
    /\ \/ /\ \E d \in WordLists :
                /\ data' = d
                /\ text_boxes' = BuildBoxes(d)
          /\ engineFailed' = engineFailed
          /\ site' = "extract"
          /\ pc' = "pre_resize"
          /\ UNCHANGED <<raised, response>>
       \/ /\ \E m \in Messages : Raise(EngineError(m))
          /\ data' = <<>>
          /\ text_boxes' = <<>>
          /\ engineFailed' = engineFailed \cup {"image_to_data"}
          /\ site' = site
    /\ gray' = NoImage
    /\ adaptive' = NoImage
    /\ otsu' = NoImage
    /\ processed' = NoImage
    /\ UNCHANGED <<image, extractVars, image_with_boxes, preprocessCalls,
                   stages>>

\* DetectRegions handing its preprocessed image on to extract_text, which
\* then skips the preprocess_image call of line 119.
DetectRegionsSharing ==
    /\ pc = "detect_engine"
    /\ engineCalls' = engineCalls + 1
    /\ \/ \E d \in WordLists :
            /\ data' = d
            /\ text_boxes' = BuildBoxes(d)
            /\ engineFailed' = engineFailed
       \/ /\ data' = <<>>
          /\ text_boxes' = <<>>
          /\ engineFailed' = engineFailed \cup {"image_to_data"}
    /\ site' = "extract"
    /\ pc' = "extract_pass1"
    /\ stages' = Append(stages, "extract_text")
    /\ UNCHANGED <<image, preVars, extractVars, image_with_boxes, response,
                   raised, preprocessCalls>>

\* lines 65-91 of detect_text_regions and lines 159-164 of process_ocr.
DetectRegions ==
    /\ pc = "detect_engine"
    /\ engineCalls' = engineCalls + 1
    /\ \/ \E d \in WordLists :
            /\ data' = d
            /\ text_boxes' = BuildBoxes(d)
            /\ engineFailed' = engineFailed
       \/ /\ data' = <<>>
          /\ text_boxes' = <<>>
          /\ engineFailed' = engineFailed \cup {"image_to_data"}
    /\ gray' = NoImage
    /\ adaptive' = NoImage
    /\ otsu' = NoImage
    /\ processed' = NoImage
    /\ site' = "extract"
    /\ pc' = "pre_resize"
    /\ UNCHANGED <<image, extractVars, image_with_boxes, response, raised,
                   preprocessCalls, stages>>

\* lines 121-127 of extract_text: the full-page pass.
ExtractPass1 ==
    /\ pc = "extract_pass1"
    /\ engineCalls' = engineCalls + 1
    /\ \/ /\ \E t \in Strings : text1' = t
          /\ pc' = "extract_pass2"
          /\ UNCHANGED <<extracted_text, engineFailed>>
       \/ /\ text1' = text1
          /\ extracted_text' = <<>>
          /\ engineFailed' = engineFailed \cup {"psm3"}
          /\ pc' = "annotate"
    /\ gray' = NoImage
    /\ adaptive' = NoImage
    /\ otsu' = NoImage
    /\ UNCHANGED <<image, site, processed, detectVars, text2, image_with_boxes,
                   response, raised, preprocessCalls, stages>>

\* lines 129-139 of extract_text: the single-block pass and the choice.
ExtractPass2 ==
    /\ pc = "extract_pass2"
    /\ engineCalls' = engineCalls + 1
    /\ \/ \E t \in Strings :
            /\ text2' = t
            /\ extracted_text' = LongerText(text1, t)
            /\ engineFailed' = engineFailed
       \/ /\ text2' = text2
          /\ extracted_text' = <<>>
          /\ engineFailed' = engineFailed \cup {"psm6"}
    /\ processed' = NoImage
    /\ pc' = "annotate"
    /\ UNCHANGED <<image, site, gray, adaptive, otsu, detectVars, text1,
                   image_with_boxes, response, raised, preprocessCalls, stages>>

\* line 168 of process_ocr: draw_bounding_boxes, lines 93-115.
Annotate ==
    /\ pc = "annotate"
    /\ stages' = Append(stages, "annotate")
    /\ text1' = <<>>
    /\ text2' = <<>>
    /\ processed' = NoImage
    /\ \/ /\ image_with_boxes' = DrawBoxes(text_boxes)
          /\ pc' = "respond"
          /\ UNCHANGED <<raised, response>>
       \/ /\ \E m \in Messages : Raise(LibraryError(m))
          /\ image_with_boxes' = image_with_boxes
    /\ UNCHANGED <<image, site, gray, adaptive, otsu, detectVars,
                   extracted_text, engineFailed, engineCalls, preprocessCalls>>

\* lines 171-187 of process_ocr: encode, average and build the response.
Respond ==
    /\ pc = "respond"
    /\ stages' = Append(stages, "assemble")
    /\ \/ /\ response' = SuccessResponse(extracted_text, text_boxes,
                                         image_with_boxes)
          /\ pc' = "done"
          /\ raised' = raised
       \/ \E m \in Messages : Raise(LibraryError(m))
    /\ UNCHANGED <<image, site, preVars, detectVars, extractVars,
                   image_with_boxes, engineFailed, engineCalls, preprocessCalls>>

\* The next request starts from nothing: no state is shared across requests.
NextRequest ==
    /\ pc = "done"
    /\ pc' = "start"
    /\ image' = NoImage
    /\ site' = "none"
    /\ gray' = NoImage
    /\ adaptive' = NoImage
    /\ otsu' = NoImage
    /\ processed' = NoImage
    /\ data' = <<>>
    /\ text_boxes' = <<>>
    /\ text1' = <<>>
    /\ text2' = <<>>
    /\ extracted_text' = <<>>
    /\ image_with_boxes' = <<>>
    /\ response' = NoResponse
    /\ raised' = NoException
    /\ engineFailed' = {}
    /\ engineCalls' = 0
    /\ preprocessCalls' = 0
    /\ stages' = <<>>

Next ==
    \/ Decode
    \/ PreprocessResize
    \/ PreprocessBinarize
    \/ PreprocessReturn
    \/ DetectRegions
    \/ ExtractPass1
    \/ ExtractPass2
    \/ Annotate
    \/ Respond
    \/ NextRequest

Spec == Init /\ [][Next]_vars

(***************************************************************************)
(* Properties.                                                             *)
(***************************************************************************)
Done == pc = "done"
Decodable == image # NoImage
Succeeded == Done /\ response.status = 200

DetectFailed == "image_to_data" \in engineFailed
ExtractFailed == engineFailed \cap {"psm3", "psm6"} # {}

\* C1: a request whose upload decodes to no image is answered with a 400
\* whose detail is "Invalid image file", never with a 500 or a success.
C1_InvalidImageIs400 ==
    (Done /\ ~Decodable) =>
        /\ response.status = 400
        /\ response.detail = <<"Invalid image file">>

\* C2: an engine invocation that raises is absorbed inside the Recognizer
\* (empty box list, empty text), never reaches process_ocr, and a request in
\* which nothing else raises still ends in a 200; when both Recognizer
\* functions fail, the response has no boxes, total_boxes 0, average
\* confidence 0 and the fallback text.
C2_EngineFailureDegrades ==
    /\ raised.cls # "TesseractError"
    /\ DetectFailed => text_boxes = <<>>
    /\ (ExtractFailed /\ pc \in {"annotate", "respond", "done"}) =>
            extracted_text = <<>>
    /\ (Done /\ Decodable /\ raised = NoException) =>
            /\ response.status = 200
            /\ response.success
            /\ DetectFailed =>
                /\ response.data.text_boxes = <<>>
                /\ response.data.total_boxes = 0
                /\ response.data.average_confidence = 0
            /\ ExtractFailed => response.data.text = NoText

C2_Witness ==
    /\ Succeeded
    /\ DetectFailed
    /\ ExtractFailed
    /\ response.data.text = NoText
    /\ response.data.total_boxes = 0

\* C3: for a decodable image, an exception raised outside the engine
\* invocations (preprocessing, drawing, encoding, response assembly) ends the
\* request in a 500 that carries the exception's message and no result; a
\* request ends in exactly one of 200, 400 and 500, and in 200 only when
\* nothing was raised.
C3_OtherFailureIs500 ==
    /\ (raised # NoException) => Done
    /\ (Done /\ Decodable /\ raised # NoException) =>
            /\ response.status = 500
            /\ ~response.success
            /\ response.detail = <<"Processing error: ", raised.detail>>
            /\ response.data = NoData
    /\ Done => /\ response.status \in {200, 400, 500}
               /\ response.success <=> (response.status = 200)
               /\ (response.status = 200) <=> (raised = NoException)
    /\ ~Done => response = NoResponse

C3_Witness ==
    /\ Done
    /\ Decodable
    /\ raised.cls = "Exception"
    /\ response.status = 500
    /\ text_boxes # <<>>
    /\ stages[Len(stages)] = "assemble"

\* The words of data at the indexes in keep, in data's order.
RECURSIVE Pick(_, _)
Pick(data_, keep) ==
    IF data_ = <<>> THEN <<>>
    ELSE LET n    == Len(data_)
             rest == Pick(SubSeq(data_, 1, n - 1), keep)
         IN IF n \in keep THEN Append(rest, data_[n]) ELSE rest

HasText(w) == \E j \in DOMAIN w.text : w.text[j] \notin Whitespace

Geometry(b) == <<b.x, b.y, b.width, b.height>>

\* detect_text_regions has returned the boxes of the rows in data.
DetectReturned == pc = "pre_resize" /\ site = "extract" /\ ~DetectFailed

BoxesAre(kept) ==
    /\ Len(text_boxes) = Len(kept)
    /\ \A i \in DOMAIN kept :
        /\ text_boxes[i].text = Strip(kept[i].text)
        /\ Geometry(text_boxes[i]) =
              <<kept[i].left, kept[i].top, kept[i].width, kept[i].height>>

AllAboveThreshold(boxes) ==
    \A i \in DOMAIN boxes : boxes[i].confidence > 30 /\ boxes[i].text # <<>>

\* C4 as stated: detect_text_regions returns exactly the words whose
\* engine-reported confidence is > 30 and whose trimmed text is non-empty.
C4_ExactlyReportedAbove30 ==
    DetectReturned =>
        BoxesAre(Pick(data, {i \in DOMAIN data :
            /\ \/ data[i].conf.whole > 30
               \/ data[i].conf.whole = 30 /\ data[i].conf.frac > 0
            /\ HasText(data[i])}))

\* C4, amended: detect_text_regions returns exactly the words whose
\* confidence truncated to an integer is > 30 (reported confidence >= 31) and
\* whose trimmed text is non-empty, in the engine's order, with the trimmed
\* text and the truncated confidence; every box returned, drawn or listed in
\* a success response has confidence > 30 and non-empty text.
C4_TruncatedAbove30 ==
    /\ DetectReturned =>
        LET kept == Pick(data, {i \in DOMAIN data :
                        data[i].conf.whole >= 31 /\ HasText(data[i])})
        IN /\ BoxesAre(kept)
           /\ \A i \in DOMAIN kept :
                text_boxes[i].confidence = kept[i].conf.whole
    /\ AllAboveThreshold(text_boxes)
    /\ \A i \in DOMAIN image_with_boxes : image_with_boxes[i].label > 30
    /\ AllAboveThreshold(response.data.text_boxes)

C4_Witness ==
    /\ DetectReturned
    /\ \E i \in DOMAIN data : data[i].conf = Conf(30, 5)
    /\ \E i \in DOMAIN data : data[i].conf = Conf(31, 0)
    /\ \E i \in DOMAIN data : data[i].conf.whole > 30 /\ ~HasText(data[i])
    /\ Len(text_boxes) = 1

\* extract_text has returned after both passes ran.
ExtractReturned == pc = "annotate" /\ ~ExtractFailed

Longest(a, b) == IF Len(a) >= Len(b) THEN Len(a) ELSE Len(b)

\* C5: extract_text returns the longer of the two trimmed engine outputs,
\* and the trimmed full-page output when they are equally long.
C5_LongerTrimmedText ==
    ExtractReturned =>
        LET t1 == Strip(text1)
            t2 == Strip(text2)
        IN /\ Len(t2) > Len(t1) => extracted_text = t2
           /\ Len(t1) > Len(t2) => extracted_text = t1
           /\ Len(t1) = Len(t2) => extracted_text = t1
           /\ Len(extracted_text) = Longest(t1, t2)

C5_Witness ==
    /\ ExtractReturned
    /\ Len(Strip(text1)) = Len(Strip(text2))
    /\ Strip(text1) # Strip(text2)
    /\ extracted_text = Strip(text1)

RECURSIVE Total(_)
Total(boxes) ==
    IF boxes = <<>> THEN 0
    ELSE boxes[Len(boxes)].confidence + Total(SubSeq(boxes, 1, Len(boxes) - 1))

Abs(n) == IF n < 0 THEN -n ELSE n

\* C6 as stated: average_confidence is the arithmetic mean of the
\* confidences of the response's boxes, and 0 when there are none.
C6_ExactMean ==
    Succeeded =>
        LET boxes == response.data.text_boxes
            avg   == response.data.average_confidence
        IN IF boxes = <<>> THEN avg = 0
           ELSE avg * Len(boxes) = 100 * Total(boxes)

\* C6, amended: average_confidence is the arithmetic mean of the confidences
\* of the response's boxes rounded to two decimal places (the nearest
\* hundredth, the even one on a tie), and 0 when there are none.
C6_MeanRoundedToHundredths ==
    Succeeded =>
        LET boxes == response.data.text_boxes
            avg   == response.data.average_confidence
            err   == Abs(avg * Len(boxes) - 100 * Total(boxes))
        IN IF boxes = <<>> THEN avg = 0
           ELSE /\ 2 * err <= Len(boxes)
                /\ 2 * err = Len(boxes) => avg % 2 = 0

C6_Witness ==
    /\ Succeeded
    /\ Len(response.data.text_boxes) = 3
    /\ (100 * Total(response.data.text_boxes)) % 3 = 2
    /\ response.data.average_confidence * 3 = 100 * Total(response.data.text_boxes) + 1

\* preprocess_image has resized its input.
Resized == pc = "pre_binarize"

\* num / den rounded to the nearest integer
Nearest(num, den) == (2 * num + den) \div (2 * den)

\* C7: preprocess_image returns a single-channel image at least 2000 wide:
\* exactly 2000 wide and h*2000/w (rounded to nearest) high when w < 2000,
\* of unchanged size when w >= 2000.
C7_AtLeast2000Wide ==
    /\ Resized =>
        /\ gray.channels = 1
        /\ gray.width >= 2000
        /\ image.width < 2000 =>
            /\ gray.width = 2000
            /\ gray.height = Nearest(image.height * 2000, image.width)
        /\ image.width >= 2000 =>
            /\ gray.width = image.width
            /\ gray.height = image.height
    /\ pc \in {"detect_engine", "extract_pass1"} =>
        /\ processed.channels = 1
        /\ processed.width >= 2000

\* draw_bounding_boxes has drawn the boxes.
Drawn == pc = "respond"

StageOrder ==
    <<"decode", "detect_regions", "extract_text", "annotate", "assemble">>

\* C9 as stated: a request that succeeds has made exactly two engine
\* invocations and exactly two preprocessing passes, in the order decode,
\* detect regions, extract text, annotate, assemble.
C9_TwoEngineInvocations ==
    Succeeded =>
        /\ engineCalls = 2
        /\ preprocessCalls = 2
        /\ stages = StageOrder

\* C9, amended: a request that succeeds has made exactly two preprocessing
\* passes and three engine invocations (image_to_data, then image_to_string
\* twice), or two when the first image_to_string raises and the second pass
\* is skipped, in the order decode, detect regions, extract text, annotate,
\* assemble.
C9_ThreeEngineInvocations ==
    Succeeded =>
        /\ engineCalls = (IF "psm3" \in engineFailed THEN 2 ELSE 3)
        /\ preprocessCalls = 2
        /\ stages = StageOrder

C9_Witness ==
    /\ Succeeded
    /\ engineFailed = {}
    /\ engineCalls = 3
    /\ preprocessCalls = 2

\* preprocess_image has returned to its caller.
Preprocessed == pc \in {"detect_engine", "extract_pass1"}

Black(img) == Cardinality({i \in DOMAIN img.pixels : img.pixels[i] = 0})

\* C10: preprocess_image returns the Otsu binarization when it has strictly
\* more black pixels than the adaptive one, and the adaptive one otherwise
\* (also on a tie); the result is always one of the two.
C10_MoreBlackPixels ==
    Preprocessed =>
        /\ processed \in {adaptive, otsu}
        /\ Black(otsu) > Black(adaptive) => processed = otsu
        /\ Black(otsu) <= Black(adaptive) => processed = adaptive

C10_Witness ==
    /\ Preprocessed
    /\ Black(otsu) = Black(adaptive)
    /\ otsu # adaptive
    /\ processed = adaptive

====
